---- MODULE Spec2Model ----
(***************************************************************************)
(* A model of <ModalProvider> (src/lib/ModalProvider.tsx): the provider's  *)
(* refs and state, the operations it publishes, its mount effect and the   *)
(* event-listener registry, together with the collaborators it calls: the  *)
(* ModalState store, validateListener / invariant from ../utils, the       *)
(* closing path of ModalStack and the platform's BackHandler.              *)
(*                                                                         *)
(* Strings that the code concatenates or searches (hashes, event names,    *)
(* scoped keys) are sequences of one-character strings, so that            *)
(* `${hash}_${eventName}` and String.prototype.includes are computed.      *)
(***************************************************************************)
EXTENDS Integers, Sequences, FiniteSets, TLC

\* ------------------------------------------------------------ bounds
\* Instances the store may open over a run (hashes are never reused).
MaxOpens == 3
\* Listener entries registerListener may create over a run.
MaxRegs == 3
\* BackHandler.addEventListener calls one provider instance may make.
MaxAdds == 3
\* console.warn calls the listeners may make over a run.
MaxWarns == 2

\* The UI roots: the application has one active root at a time; the second
\* identity tells an unmounted provider instance from its successor.
Roots == {1, 2}

\* ------------------------------------------------------------ values
Null == <<>>

\* The Stack Definition handed to the provider: the configured modal names.
ModalNames == {"A", "B"}
\* Names a caller may pass to openModal; "X" is not configured.
NameInputs == ModalNames \cup {"X"}

\* The k-th hash the store generates: fresh, unique, never reused.
Hash(k) == [i \in 1..k |-> "a"]

\* The separator of the template literal `${hash}_${eventName}`.
Sep == <<"_">>

\* Hashes and event names callers pass to registerListener / clearListeners.
HashInputs == {Hash(1), Hash(2), <<"a", "_", "b">>}
EventInputs == {<<>>, <<"a">>, <<"b", "_", "a">>}
\* Handlers: "fn" is a function, "notFn" is not callable.
HandlerInputs == {"fn", "notFn"}

VARIABLES
  phase,                  \* per root: none | rendered | mounted | unmounted
  stackProp,              \* per root: whether the `stack` prop was supplied
  contextValue,           \* per root: useState(contextValue): currentModal, stack
  modalEventListeners,    \* per root: the Set of listener entries, insertion order
  modalStateSubscription, \* per root: modalStateSubscription.current is set
  nextId,                 \* identity of the next listener object created
  initialized,            \* store: init has been called
  stack,                  \* store: the open instances, last is topmost
  nextHash,               \* store: index of the next hash to generate
  subscribers,            \* store: roots whose listener is subscribed
  backHandlers,           \* platform: handlers registered for hardwareBackPress
  addCalls,               \* per root: addEventListener calls this instance made
  effectCalls,            \* per root: the store calls its mount effect made, in order
  warnings,               \* console.warn calls made by the listeners
  last                    \* the last call made and how it ended

vars == <<phase, stackProp, contextValue, modalEventListeners,
          modalStateSubscription, nextId, initialized, stack, nextHash,
          subscribers, backHandlers, addCalls, effectCalls, warnings, last>>

\* ------------------------------------------------------------ helpers
\* What the last call was: its operation, the root, its arguments, the error
\* it raised ("none" when it returned), the hashes it closed, and the number
\* of listener entries it deleted.
ListenerCall(op, p, hash, eventName, handler, id, err, n) ==
  [op |-> op, p |-> p, hash |-> hash, name |-> "", id |-> id, err |-> err,
   closed |-> {}, n |-> n, eventName |-> eventName, handler |-> handler]

Call(op, p, hash, name, id, err, closed, n) ==
  [op |-> op, p |-> p, hash |-> hash, name |-> name, id |-> id, err |-> err,
   closed |-> closed, n |-> n, eventName |-> <<>>, handler |-> ""]

\* includes with receiver and argument exchanged: hash.includes(item.event).
includesSwapped(s, t) ==
  \E i \in 0..(Len(t) - Len(s)) : SubSeq(t, i + 1, i + Len(s)) = s

\* String.prototype.includes: t occurs in s as a substring.
includes(s, t) ==
  \E i \in 0..(Len(s) - Len(t)) : SubSeq(s, i + 1, i + Len(t)) = t

\* The template literal `${hash}_${eventName}`.
scopedKey(hash, eventName) == hash \o Sep \o eventName

\* The object literal { event, handler }. id stands for the object's identity
\* (Set membership is by reference); hash and eventName record the call's
\* arguments for the properties and are read by no operation.
newListener(id, hash, eventName, handler) ==
  [id |-> id, event |-> scopedKey(hash, eventName), handler |-> handler,
   hash |-> hash, eventName |-> eventName]

\* A slot of the Set's entry list whose entry was deleted during iteration.
Empty == newListener(0, <<>>, <<>>, "")

\* utils.validateListener: the event name is non-empty and the handler callable.
validListener(eventName, handler) == eventName # <<>> /\ handler = "fn"

\* ModalState.getState().currentModal: the topmost instance's hash or null.
currentModalOf(s) == IF s = <<>> THEN Null ELSE s[Len(s)].hash

\* The initial value given to useState: no current modal, the stack as
\* handed in, and the operations (openModal, closeModal, closeModals,
\* closeAllModals, getParam) created by the first render.
InitialContext == [currentModal |-> Null, stack |-> <<>>, ops |-> "firstRender"]

\* The listener replacing the displayed state by the snapshot's two fields.
listenerNoSpread(ctx, s) ==
  [currentModal |-> currentModalOf(s), stack |-> s, ops |-> "none"]

\* The provider's listener: folds a snapshot into the displayed state.
listener(ctx, s) ==
  [ctx EXCEPT !.currentModal = currentModalOf(s), !.stack = s]

\* The contextValue the subscribed listener closes over: the effect ran after
\* the first render only, so it is that render's value.
capturedContext(p) == InitialContext

\* The listener folding even a null snapshot: modalState?.currentModal and
\* modalState?.stack are undefined and overwrite the displayed ones.
listenerOnNoGuard(captured, cur, ok, s) ==
  IF ok THEN listener(captured, s)
  ELSE [captured EXCEPT !.currentModal = Null, !.stack = <<>>]

\* The listener called with (modalState, error): a snapshot (ok) is folded
\* into the captured value and set as the new state; a null snapshot leaves
\* the state (cur) as it is and the error is passed to console.warn.
listenerOn(captured, cur, ok, s) ==
  IF ok THEN listener(captured, s) ELSE cur

\* The store notifying every subscriber of the snapshot s.
notify(s) ==
  [p \in Roots |-> IF p \in subscribers
                   THEN listenerOn(capturedContext(p), contextValue[p], TRUE, s)
                   ELSE contextValue[p]]

\* The store funnelling an internal failure: every subscriber is called with
\* a null snapshot and the error.
notifyError ==
  [p \in Roots |-> IF p \in subscribers
                   THEN listenerOn(capturedContext(p), contextValue[p], FALSE, <<>>)
                   ELSE contextValue[p]]

\* Deletion by value: every entry with the same event and handler goes.
setDeleteByValue(data, id) ==
  SelectSeq(data, LAMBDA x :
    ~\E i \in 1..Len(data) :
       data[i].id = id /\ data[i].event = x.event /\ data[i].handler = x.handler)

\* Deletion as array.splice(array.indexOf(item), 1): an absent item gives
\* index -1 and the last element goes.
setDeleteSplice(data, id) ==
  IF \E i \in 1..Len(data) : data[i].id = id
  THEN SelectSeq(data, LAMBDA x : x.id # id)
  ELSE SubSeq(data, 1, Len(data) - 1)

\* Set.prototype.delete(item), item given by its identity.
setDelete(data, id) == SelectSeq(data, LAMBDA x : x.id # id)

\* The entries of a slot list that are still there.
compact(data) == SelectSeq(data, LAMBDA x : x.id # 0)

\* Set.prototype.forEach with the callback of clearListeners: the slots are
\* visited in insertion order; a deleted entry leaves its slot empty and the
\* index moves on.
RECURSIVE forEachFrom(_, _, _)
forEachFrom(data, i, hash) ==
  IF i > Len(data) THEN data
  ELSE IF data[i].id # 0 /\ includes(data[i].event, hash)
       THEN forEachFrom([data EXCEPT ![i] = Empty], i + 1, hash)
       ELSE forEachFrom(data, i + 1, hash)

\* The same loop over an array that is spliced while it is walked: the entry
\* after a deleted one moves into its place and is skipped.
RECURSIVE spliceFrom(_, _, _)
spliceFrom(data, i, hash) ==
  IF i > Len(data) THEN data
  ELSE IF includes(data[i].event, hash)
       THEN spliceFrom(SubSeq(data, 1, i - 1) \o SubSeq(data, i + 1, Len(data)),
                       i + 1, hash)
       ELSE spliceFrom(data, i + 1, hash)

forEachDeleteSplice(data, hash) == spliceFrom(data, 1, hash)

\* modalEventListeners.forEach(item => item.event.includes(hash) && delete).
forEachDelete(data, hash) == compact(forEachFrom(data, 1, hash))

\* clearListeners called for each hash of hs in turn.
RECURSIVE clearAll(_, _)
clearAll(data, hs) ==
  IF hs = <<>> THEN data
  ELSE clearAll(forEachDelete(data, Head(hs)), Tail(hs))

\* The hashes of the instances of s, topmost first.
RECURSIVE hashesTopFirst(_)
hashesTopFirst(s) ==
  IF s = <<>> THEN <<>>
  ELSE <<s[Len(s)].hash>> \o hashesTopFirst(SubSeq(s, 1, Len(s) - 1))

\* The roots whose ModalStack is rendered.
Live(p) == phase[p] \in {"rendered", "mounted"}

\* How many entries clearing hs deletes in the registries of the roots rs.
RECURSIVE clearedIn(_, _)
clearedIn(rs, hs) ==
  IF rs = {} THEN 0
  ELSE LET r == CHOOSE x \in rs : TRUE
       IN clearedIn(rs \ {r}, hs)
          + (IF Live(r)
             THEN Len(modalEventListeners[r]) - Len(clearAll(modalEventListeners[r], hs))
             ELSE 0)

\* ------------------------------------------------------------ initial state
Init ==
  /\ phase = [p \in Roots |-> "none"]
  /\ stackProp = [p \in Roots |-> TRUE]
  /\ contextValue = [p \in Roots |-> InitialContext]
  /\ modalEventListeners = [p \in Roots |-> <<>>]
  /\ modalStateSubscription = [p \in Roots |-> FALSE]
  /\ nextId = 1
  /\ initialized = FALSE
  /\ stack = <<>>
  /\ nextHash = 1
  /\ subscribers = {}
  /\ backHandlers = {}
  /\ addCalls = [p \in Roots |-> 0]
  /\ effectCalls = [p \in Roots |-> <<>>]
  /\ warnings = 0
  /\ last = Call("start", 0, <<>>, "", 0, "none", {}, 0)

\* ------------------------------------------------------------ lifecycle
\* The first render of a provider instance for root p: fresh refs and state.
\* The `stack` prop is supplied or not.
Render(p) ==
  /\ phase[p] \in {"none", "unmounted"}
  /\ \E supplied \in BOOLEAN : stackProp' = [stackProp EXCEPT ![p] = supplied]
  /\ phase' = [phase EXCEPT ![p] = "rendered"]
  /\ contextValue' = [contextValue EXCEPT ![p] = InitialContext]
  /\ modalEventListeners' = [modalEventListeners EXCEPT ![p] = <<>>]
  /\ modalStateSubscription' = [modalStateSubscription EXCEPT ![p] = FALSE]
  /\ addCalls' = [addCalls EXCEPT ![p] = 0]
  /\ effectCalls' = [effectCalls EXCEPT ![p] = <<>>]
  /\ last' = Call("render", p, <<>>, "", 0, "none", {}, 0)
  /\ UNCHANGED <<nextId, initialized, stack, nextHash, subscribers, backHandlers,
                 warnings>>

\* A render for root p while no other provider instance is alive: the
\* application has one active UI root at a time.
RenderAlone(p) ==
  /\ \A q \in Roots : ~Live(q)
  /\ Render(p)

\* The effect calling ModalState.init and ModalState.subscribe before the
\* invariant on the stack prop.
MountEffectInitFirst(p) ==
  /\ phase[p] = "rendered"
  /\ initialized' = TRUE
  /\ stack' = <<>>
  /\ subscribers' = subscribers \cup {p}
  /\ effectCalls' = [effectCalls EXCEPT ![p] = @ \o <<"init", "subscribe">>]
  /\ modalStateSubscription' = [modalStateSubscription EXCEPT ![p] = TRUE]
  /\ IF ~stackProp[p]
     THEN /\ phase' = [phase EXCEPT ![p] = "none"]
          /\ last' = Call("mount", p, <<>>, "", 0, "ConfigurationError", {}, 0)
     ELSE /\ phase' = [phase EXCEPT ![p] = "mounted"]
          /\ last' = Call("mount", p, <<>>, "", 0, "none", {}, 0)
  /\ UNCHANGED <<warnings, stackProp, contextValue, modalEventListeners, nextId, nextHash,
                 backHandlers,
                 addCalls>>

\* useEffect(..., []): invariant(stack, ...) throws when the prop is missing
\* and the tree is torn down; otherwise ModalState.init sets the store to
\* { currentModal: null, stack } and the listener is subscribed.
MountEffect(p) ==
  /\ phase[p] = "rendered"
  /\ IF ~stackProp[p]
     THEN /\ phase' = [phase EXCEPT ![p] = "none"]
          /\ last' = Call("mount", p, <<>>, "", 0, "ConfigurationError", {}, 0)
          /\ UNCHANGED <<initialized, stack, subscribers, modalStateSubscription,
                         effectCalls>>
     ELSE /\ phase' = [phase EXCEPT ![p] = "mounted"]
          /\ initialized' = TRUE
          /\ stack' = <<>>
          /\ subscribers' = subscribers \cup {p}
          /\ effectCalls' = [effectCalls EXCEPT ![p] = @ \o <<"init", "subscribe">>]
          /\ modalStateSubscription' = [modalStateSubscription EXCEPT ![p] = TRUE]
          /\ last' = Call("mount", p, <<>>, "", 0, "none", {}, 0)
  /\ UNCHANGED <<warnings, stackProp, contextValue, modalEventListeners, nextId, nextHash,
                 backHandlers,
                 addCalls>>

\* The cleanup without BackHandler.removeEventListener.
UnmountKeepHandler(p) ==
  /\ phase[p] = "mounted"
  /\ phase' = [phase EXCEPT ![p] = "unmounted"]
  /\ subscribers' = IF modalStateSubscription[p] THEN subscribers \ {p}
                    ELSE subscribers
  /\ last' = Call("unmount", p, <<>>, "", 0, "none", {}, 0)
  /\ UNCHANGED <<effectCalls, warnings, stackProp, contextValue, modalEventListeners,
                 modalStateSubscription, nextId, initialized, stack, nextHash,
                 backHandlers,
                 addCalls>>

\* The effect's cleanup: BackHandler.removeEventListener('hardwareBackPress',
\* ModalState.handleBackPress), then modalStateSubscription.current?.unsubscribe().
Unmount(p) ==
  /\ phase[p] = "mounted"
  /\ phase' = [phase EXCEPT ![p] = "unmounted"]
  /\ backHandlers' = backHandlers \ {"handleBackPress"}
  /\ subscribers' = IF modalStateSubscription[p] THEN subscribers \ {p}
                    ELSE subscribers
  /\ last' = Call("unmount", p, <<>>, "", 0, "none", {}, 0)
  /\ UNCHANGED <<effectCalls, warnings, stackProp, contextValue, modalEventListeners,
                 modalStateSubscription, nextId, initialized, stack, nextHash,
                 addCalls>>

\* ------------------------------------------------------------ the store
\* ModalState closing the open instances whose hashes are hs (in that order):
\* they leave the stack, the listeners scoped to each are cleared through the
\* clearListeners every rendered ModalStack was handed, and the subscribers
\* are notified once of the new snapshot.
closeInstances(hs) ==
  LET gone == {hs[i] : i \in 1..Len(hs)}
      s == SelectSeq(stack, LAMBDA m : m.hash \notin gone)
  IN /\ stack' = s
     /\ modalEventListeners' =
          [p \in Roots |-> IF Live(p) THEN clearAll(modalEventListeners[p], hs)
                           ELSE modalEventListeners[p]]
     /\ contextValue' = notify(s)

\* The hashes of the open instances named modalName, bottom first.
RECURSIVE hashesNamed(_, _)
hashesNamed(s, modalName) ==
  IF s = <<>> THEN <<>>
  ELSE (IF Head(s).name = modalName THEN <<Head(s).hash>> ELSE <<>>)
       \o hashesNamed(Tail(s), modalName)

\* Whether an instance with this hash is open.
isOpen(hash) == \E i \in 1..Len(stack) : stack[i].hash = hash

\* ------------------------------------------------------------ provider operations
\* openModal with a try/catch around the store's call: the error is swallowed.
openModalSwallow(p, modalName) ==
  /\ Live(p)
  /\ modalName \in ModalNames => nextHash <= MaxOpens
  /\ (initialized /\ currentModalOf(stack) = Null) => addCalls[p] < MaxAdds
  /\ IF ~initialized
     THEN /\ last' = Call("openModal", p, <<>>, modalName, 0, "NotInitialized", {}, 0)
          /\ UNCHANGED <<backHandlers, addCalls, stack, nextHash, contextValue>>
     ELSE /\ backHandlers' = IF currentModalOf(stack) = Null
                             THEN backHandlers \cup {"handleBackPress"}
                             ELSE backHandlers
          /\ addCalls' = IF currentModalOf(stack) = Null
                         THEN [addCalls EXCEPT ![p] = @ + 1]
                         ELSE addCalls
          /\ IF modalName \notin ModalNames
             THEN /\ last' = Call("openModal", p, <<>>, modalName, 0, "none", {}, 0)
                  /\ UNCHANGED <<stack, nextHash, contextValue>>
             ELSE LET s == Append(stack, [hash |-> Hash(nextHash), name |-> modalName])
                  IN /\ stack' = s
                     /\ nextHash' = nextHash + 1
                     /\ contextValue' = notify(s)
                     /\ last' = Call("openModal", p, Hash(nextHash), modalName, 0,
                                     "none", {}, 0)
  /\ UNCHANGED <<effectCalls, warnings, phase, stackProp, modalEventListeners, modalStateSubscription,
                 nextId, initialized, subscribers>>

\* openModal that attaches the handler only when the stack has never been
\* non-empty (a once-only flag kept in place of the currentModal test).
openModalAttachOnce(p, modalName) ==
  /\ Live(p)
  /\ modalName \in ModalNames => nextHash <= MaxOpens
  /\ (initialized /\ currentModalOf(stack) = Null) => addCalls[p] < MaxAdds
  /\ IF ~initialized
     THEN /\ last' = Call("openModal", p, <<>>, modalName, 0, "NotInitialized", {}, 0)
          /\ UNCHANGED <<backHandlers, addCalls, stack, nextHash, contextValue>>
     ELSE /\ backHandlers' = IF nextHash = 1
                             THEN backHandlers \cup {"handleBackPress"}
                             ELSE backHandlers
          /\ addCalls' = IF nextHash = 1
                         THEN [addCalls EXCEPT ![p] = @ + 1]
                         ELSE addCalls
          /\ IF modalName \notin ModalNames
             THEN /\ last' = Call("openModal", p, <<>>, modalName, 0,
                                  "UnknownModalError", {}, 0)
                  /\ UNCHANGED <<stack, nextHash, contextValue>>
             ELSE LET s == Append(stack, [hash |-> Hash(nextHash), name |-> modalName])
                  IN /\ stack' = s
                     /\ nextHash' = nextHash + 1
                     /\ contextValue' = notify(s)
                     /\ last' = Call("openModal", p, Hash(nextHash), modalName, 0,
                                     "none", {}, 0)
  /\ UNCHANGED <<effectCalls, warnings, phase, stackProp, modalEventListeners, modalStateSubscription,
                 nextId, initialized, subscribers>>

\* openModal(modalName, params): reads ModalState.getState().currentModal (a
\* store that was never initialized has no state to read), attaches
\* handleBackPress when no modal is open, then calls ModalState.openModal,
\* which throws UnknownModalError for a name the definition lacks and
\* otherwise pushes a new instance and notifies. Nothing is caught.
openModal(p, modalName) ==
  /\ Live(p)
  /\ modalName \in ModalNames => nextHash <= MaxOpens
  /\ (initialized /\ currentModalOf(stack) = Null) => addCalls[p] < MaxAdds
  /\ IF ~initialized
     THEN /\ last' = Call("openModal", p, <<>>, modalName, 0, "NotInitialized", {}, 0)
          /\ UNCHANGED <<backHandlers, addCalls, stack, nextHash, contextValue>>
     ELSE /\ backHandlers' = IF currentModalOf(stack) = Null
                             THEN backHandlers \cup {"handleBackPress"}
                             ELSE backHandlers
          /\ addCalls' = IF currentModalOf(stack) = Null
                         THEN [addCalls EXCEPT ![p] = @ + 1]
                         ELSE addCalls
          /\ IF modalName \notin ModalNames
             THEN /\ last' = Call("openModal", p, <<>>, modalName, 0,
                                  "UnknownModalError", {}, 0)
                  /\ UNCHANGED <<stack, nextHash, contextValue>>
             ELSE LET s == Append(stack, [hash |-> Hash(nextHash), name |-> modalName])
                  IN /\ stack' = s
                     /\ nextHash' = nextHash + 1
                     /\ contextValue' = notify(s)
                     /\ last' = Call("openModal", p, Hash(nextHash), modalName, 0,
                                     "none", {}, 0)
  /\ UNCHANGED <<effectCalls, warnings, phase, stackProp, modalEventListeners, modalStateSubscription,
                 nextId, initialized, subscribers>>

\* closeModal(stackItem) => ModalState.closeModal(stackItem): the referenced
\* instance is closed; a reference to an instance that is not open is a no-op
\* without notification.
closeModal(p, hash) ==
  /\ Live(p)
  /\ IF ~initialized
     THEN /\ last' = Call("closeModal", p, hash, "", 0, "NotInitialized", {}, 0)
          /\ UNCHANGED <<stack, modalEventListeners, contextValue>>
     ELSE IF ~isOpen(hash)
     THEN /\ last' = Call("closeModal", p, hash, "", 0, "none", {}, 0)
          /\ UNCHANGED <<stack, modalEventListeners, contextValue>>
     ELSE /\ closeInstances(<<hash>>)
          /\ last' = Call("closeModal", p, hash, "", 0, "none", {hash},
                          clearedIn(Roots, <<hash>>))
  /\ UNCHANGED <<effectCalls, warnings, phase, stackProp, modalStateSubscription, nextId, initialized,
                 nextHash, subscribers, backHandlers,
                 addCalls>>

\* closeModals(modalName) => ModalState.closeModals(modalName): every open
\* instance of that name is closed; none matching is a no-op.
closeModals(p, modalName) ==
  /\ Live(p)
  /\ IF ~initialized
     THEN /\ last' = Call("closeModals", p, <<>>, modalName, 0, "NotInitialized", {}, 0)
          /\ UNCHANGED <<stack, modalEventListeners, contextValue>>
     ELSE LET hs == hashesNamed(stack, modalName)
          IN IF hs = <<>>
             THEN /\ last' = Call("closeModals", p, <<>>, modalName, 0, "none", {}, 0)
                  /\ UNCHANGED <<stack, modalEventListeners, contextValue>>
             ELSE /\ closeInstances(hs)
                  /\ last' = Call("closeModals", p, <<>>, modalName, 0, "none",
                                  {hs[i] : i \in 1..Len(hs)},
                                  clearedIn(Roots, hs))
  /\ UNCHANGED <<effectCalls, warnings, phase, stackProp, modalStateSubscription, nextId, initialized,
                 nextHash, subscribers, backHandlers,
                 addCalls>>

\* closeAllModals that also removes the hardware-back handler once the stack
\* is empty.
closeAllModalsDetach(p) ==
  /\ Live(p)
  /\ IF ~initialized
     THEN /\ last' = Call("closeAllModals", p, <<>>, "", 0, "NotInitialized", {}, 0)
          /\ UNCHANGED <<stack, modalEventListeners, contextValue, backHandlers>>
     ELSE LET hs == hashesTopFirst(stack)
          IN /\ closeInstances(hs)
             /\ backHandlers' = backHandlers \ {"handleBackPress"}
             /\ last' = Call("closeAllModals", p, <<>>, "", 0, "none",
                             {hs[i] : i \in 1..Len(hs)}, clearedIn(Roots, hs))
  /\ UNCHANGED <<effectCalls, warnings, phase, stackProp, modalStateSubscription, nextId, initialized,
                 nextHash, subscribers,
                 addCalls>>

\* closeAllModals() => ModalState.closeAllModals(): every instance is closed,
\* topmost first, and the subscribers are notified once.
closeAllModals(p) ==
  /\ Live(p)
  /\ IF ~initialized
     THEN /\ last' = Call("closeAllModals", p, <<>>, "", 0, "NotInitialized", {}, 0)
          /\ UNCHANGED <<stack, modalEventListeners, contextValue>>
     ELSE LET hs == hashesTopFirst(stack)
          IN /\ closeInstances(hs)
             /\ last' = Call("closeAllModals", p, <<>>, "", 0, "none",
                             {hs[i] : i \in 1..Len(hs)}, clearedIn(Roots, hs))
  /\ UNCHANGED <<effectCalls, warnings, phase, stackProp, modalStateSubscription, nextId, initialized,
                 nextHash, subscribers, backHandlers,
                 addCalls>>

\* The platform delivering a hardware back press to the registered handler,
\* ModalState.handleBackPress: a non-empty stack has its topmost instance
\* closed and the press is handled; an empty one leaves it unhandled.
BackPress ==
  /\ "handleBackPress" \in backHandlers
  /\ IF stack = <<>>
     THEN /\ last' = Call("handleBackPress", 0, <<>>, "", 0, "none", {}, 0)
          /\ UNCHANGED <<stack, modalEventListeners, contextValue>>
     ELSE /\ closeInstances(<<currentModalOf(stack)>>)
          /\ last' = Call("handleBackPress", 0, <<>>, "", 0, "none",
                          {currentModalOf(stack)},
                          clearedIn(Roots, <<currentModalOf(stack)>>))
  /\ UNCHANGED <<effectCalls, warnings, phase, stackProp, modalStateSubscription, nextId, initialized,
                 nextHash, subscribers, backHandlers,
                 addCalls>>

\* getParam(hash, paramName, defaultValue) => ModalState.getParam(...): a
\* read of the store; nothing is written.
getParam(p, hash) ==
  /\ Live(p)
  /\ last' = Call("getParam", p, hash, "", 0,
                  IF initialized THEN "none" ELSE "NotInitialized", {}, 0)
  /\ UNCHANGED <<phase, stackProp, contextValue, modalEventListeners,
                 modalStateSubscription, nextId, initialized, stack, nextHash,
                 subscribers, backHandlers, addCalls, effectCalls, warnings>>

\* A re-render that also runs the effect again (no dependency list): the
\* cleanup, then init and subscribe.
ReRenderRunsEffect(p) ==
  /\ phase[p] = "mounted"
  /\ Len(effectCalls[p]) < 4
  /\ backHandlers' = backHandlers \ {"handleBackPress"}
  /\ stack' = <<>>
  /\ effectCalls' = [effectCalls EXCEPT ![p] = @ \o <<"init", "subscribe">>]
  /\ last' = Call("rerender", p, <<>>, "", 0, "none", {}, 0)
  /\ UNCHANGED <<phase, stackProp, contextValue, modalEventListeners,
                 modalStateSubscription, nextId, initialized, nextHash,
                 subscribers, addCalls, warnings>>

\* A re-render of a mounted provider (after setContextValue): useRef and
\* useState hand back the same refs and state, and the effect, whose
\* dependency list is [], does not run again.
ReRender(p) ==
  /\ phase[p] = "mounted"
  /\ last' = Call("rerender", p, <<>>, "", 0, "none", {}, 0)
  /\ UNCHANGED <<phase, stackProp, contextValue, modalEventListeners,
                 modalStateSubscription, nextId, initialized, stack, nextHash,
                 subscribers, backHandlers, addCalls, effectCalls, warnings>>

\* An internal failure of the store: every subscriber's listener is called
\* with a null snapshot and the error; each logs it with console.warn.
StoreFailure ==
  /\ initialized
  /\ subscribers # {}
  /\ warnings + Cardinality(subscribers) <= MaxWarns
  /\ contextValue' = notifyError
  /\ warnings' = warnings + Cardinality(subscribers)
  /\ last' = Call("notifyError", 0, <<>>, "", 0, "none", {}, Cardinality(subscribers))
  /\ UNCHANGED <<phase, stackProp, modalEventListeners, modalStateSubscription,
                 nextId, initialized, stack, nextHash, subscribers, backHandlers,
                 addCalls, effectCalls>>

\* ------------------------------------------------------------ the listener registry
\* registerListener that inserts the entry before it validates the arguments.
registerListenerAddFirst(p, hash, eventName, handler) ==
  /\ phase[p] = "mounted"
  /\ nextId <= MaxRegs
  /\ modalEventListeners' =
       [modalEventListeners EXCEPT
          ![p] = Append(@, newListener(nextId, hash, eventName, handler))]
  /\ nextId' = nextId + 1
  /\ last' = IF validListener(eventName, handler)
             THEN ListenerCall("registerListener", p, hash, eventName, handler,
                               nextId, "none", 0)
             ELSE ListenerCall("registerListener", p, hash, eventName, handler,
                               0, "InvalidListenerError", 0)
  /\ UNCHANGED <<effectCalls, warnings, phase, stackProp, contextValue, modalStateSubscription,
                 initialized, stack, nextHash, subscribers, backHandlers,
                 addCalls>>

\* registerListener(hash, eventName, handler): validateListener throws
\* InvalidListenerError first; otherwise a new object { event, handler } is
\* added to the Set and a disposer for that object (id) is returned.
registerListener(p, hash, eventName, handler) ==
  /\ phase[p] = "mounted"
  /\ IF ~validListener(eventName, handler)
     THEN /\ last' = ListenerCall("registerListener", p, hash, eventName, handler,
                                  0, "InvalidListenerError", 0)
          /\ UNCHANGED <<modalEventListeners, nextId>>
     ELSE /\ nextId <= MaxRegs
          /\ modalEventListeners' =
               [modalEventListeners EXCEPT
                  ![p] = Append(@, newListener(nextId, hash, eventName, handler))]
          /\ nextId' = nextId + 1
          /\ last' = ListenerCall("registerListener", p, hash, eventName, handler,
                                  nextId, "none", 0)
  /\ UNCHANGED <<effectCalls, warnings, phase, stackProp, contextValue, modalStateSubscription,
                 initialized, stack, nextHash, subscribers, backHandlers,
                 addCalls>>

\* The event key of the entry with this identity, or the empty string.
eventOf(data, id) ==
  IF \E i \in 1..Len(data) : data[i].id = id
  THEN (CHOOSE x \in {data[i] : i \in 1..Len(data)} : x.id = id).event
  ELSE <<>>

\* The disposer's remove(): modalEventListeners.delete(newListener), for the
\* object created by the call that returned this disposer.
remove(p, id) ==
  /\ phase[p] = "mounted"
  /\ id \in 1..(nextId - 1)
  /\ modalEventListeners' =
       [modalEventListeners EXCEPT ![p] = setDelete(@, id)]
  /\ last' = ListenerCall("remove", p, eventOf(modalEventListeners[p], id), <<>>,
                          "", id, "none",
                          Len(modalEventListeners[p])
                            - Len(setDelete(modalEventListeners[p], id)))
  /\ UNCHANGED <<effectCalls, warnings, phase, stackProp, contextValue, modalStateSubscription, nextId,
                 initialized, stack, nextHash, subscribers, backHandlers,
                 addCalls>>

\* clearListeners(hash), called directly.
clearListeners(p, hash) ==
  /\ phase[p] = "mounted"
  /\ modalEventListeners' =
       [modalEventListeners EXCEPT ![p] = forEachDelete(@, hash)]
  /\ last' = ListenerCall("clearListeners", p, hash, <<>>, "", 0, "none",
                          Len(modalEventListeners[p])
                            - Len(forEachDelete(modalEventListeners[p], hash)))
  /\ UNCHANGED <<effectCalls, warnings, phase, stackProp, contextValue, modalStateSubscription, nextId,
                 initialized, stack, nextHash, subscribers, backHandlers,
                 addCalls>>

\* ------------------------------------------------------------ specifications
\* The provider's life cycle and the operations it publishes, one active UI
\* root at a time.
Next ==
  \/ \E p \in Roots : RenderAlone(p)
  \/ \E p \in Roots : MountEffect(p)
  \/ \E p \in Roots : Unmount(p)
  \/ \E p \in Roots, modalName \in NameInputs : openModal(p, modalName)
  \/ \E p \in Roots, k \in 1..MaxOpens : closeModal(p, Hash(k))
  \/ \E p \in Roots, modalName \in ModalNames : closeModals(p, modalName)
  \/ \E p \in Roots : closeAllModals(p)
  \/ BackPress

Spec == Init /\ [][Next]_vars

\* The listener registry of one mounted root: registrations, disposals and
\* direct clearListeners calls.
NextReg ==
  \/ RenderAlone(1)
  \/ MountEffect(1)
  \/ \E hash \in HashInputs, eventName \in EventInputs, handler \in HandlerInputs :
       registerListener(1, hash, eventName, handler)
  \/ \E id \in 1..MaxRegs : remove(1, id)
  \/ \E hash \in HashInputs : clearListeners(1, hash)

SpecReg == Init /\ [][NextReg]_vars

\* One mounted root whose modals register listeners under their own hashes
\* and are then closed in every way the provider offers.
NextClose ==
  \/ RenderAlone(1)
  \/ MountEffect(1)
  \/ \E modalName \in ModalNames : openModal(1, modalName)
  \/ \E k \in 1..MaxOpens : closeModal(1, Hash(k))
  \/ \E modalName \in ModalNames : closeModals(1, modalName)
  \/ closeAllModals(1)
  \/ BackPress
  \/ \E k \in 1..MaxOpens : registerListener(1, Hash(k), <<"a">>, "fn")

SpecClose == Init /\ [][NextClose]_vars

\* One provider with the store's notifications: opens, closes, reads,
\* re-renders and store failures.
NextFold ==
  \/ RenderAlone(1)
  \/ MountEffect(1)
  \/ Unmount(1)
  \/ ReRender(1)
  \/ \E modalName \in NameInputs : openModal(1, modalName)
  \/ \E k \in 1..MaxOpens : closeModal(1, Hash(k))
  \/ closeAllModals(1)
  \/ \E k \in 1..MaxOpens : getParam(1, Hash(k))
  \/ StoreFailure

SpecFold == Init /\ [][NextFold]_vars

\* The instances listeners are registered for: the first opened and the
\* second, whose hash contains the first's.
ListenedHashes == {Hash(1), Hash(2)}

\* One provider from mount to unmount with the hardware-back registration:
\* opens, closes, reads and listeners registered for the opened hashes.
NextBack ==
  \/ RenderAlone(1)
  \/ MountEffect(1)
  \/ Unmount(1)
  \/ \E modalName \in ModalNames : openModal(1, modalName)
  \/ \E k \in 1..MaxOpens : closeModal(1, Hash(k))
  \/ \E modalName \in ModalNames : closeModals(1, modalName)
  \/ closeAllModals(1)
  \/ \E k \in 1..MaxOpens : getParam(1, Hash(k))
  \/ \E hash \in ListenedHashes : registerListener(1, hash, <<"a">>, "fn")

SpecBack == Init /\ [][NextBack]_vars

\* ------------------------------------------------------------ properties
\* The entries of a registry, as a set.
entries(data) == {data[i] : i \in 1..Len(data)}

\* Whether key starts with hash followed by the separator.
scopedTo(key, hash) ==
  /\ Len(key) >= Len(hash) + 1
  /\ SubSeq(key, 1, Len(hash) + 1) = hash \o Sep

CloseOps == {"closeModal", "closeModals", "closeAllModals", "handleBackPress"}

\* C1: clearListeners(h) removes only entries scoped to h: every entry that
\* was registered under another hash is still in the registry after the call.
C1_ClearRemovesOnlyScoped ==
  [][last'.op = "clearListeners" =>
       \A x \in entries(modalEventListeners[last'.p]) :
         x.hash # last'.hash => x \in entries(modalEventListeners'[last'.p])]_vars

\* C2: after clearListeners(h) the registry holds no entry whose key is
\* h + separator + e for any event name e, nor any entry registered under h.
C2_ClearRemovesEveryScoped ==
  last.op = "clearListeners" =>
    \A x \in entries(modalEventListeners[last.p]) :
      ~scopedTo(x.event, last.hash) /\ x.hash # last.hash

\* C2 witness: a clearListeners call deleted at least two entries and left
\* another one in place.
C2_Witness ==
  /\ last.op = "clearListeners"
  /\ last.n >= 2
  /\ modalEventListeners[last.p] # <<>>

\* C3: entries registered under distinct (hash, event name) pairs have
\* distinct event keys.
C3_KeysDoNotCollide ==
  \A p \in Roots : \A x, y \in entries(modalEventListeners[p]) :
    <<x.hash, x.eventName>> # <<y.hash, y.eventName>> => x.event # y.event

\* C4: after a close operation (closeModal, closeModals, closeAllModals or a
\* back press) removed instances from the stack, no registry of a rendered
\* root holds an entry scoped to a removed instance's hash.
C4_ClosedInstanceHasNoListeners ==
  last.op \in CloseOps =>
    \A h \in last.closed : \A p \in Roots :
      Live(p) =>
        \A x \in entries(modalEventListeners[p]) :
          ~scopedTo(x.event, h) /\ x.hash # h

\* C4 witness: a close removed an instance whose listeners were cleared, and
\* a listener of another instance is still registered.
C4_Witness ==
  /\ last.op \in CloseOps
  /\ last.closed # {}
  /\ last.n >= 1
  /\ \E p \in Roots : modalEventListeners[p] # <<>>

\* C5: a disposer's remove() on an entry that is in the registry deletes that
\* entry and no other: the registry afterwards is the registry before less
\* exactly that object.
C5_RemoveDeletesExactlyItsEntry ==
  [][(/\ last'.op = "remove"
      /\ \E x \in entries(modalEventListeners[last'.p]) : x.id = last'.id)
     => /\ entries(modalEventListeners'[last'.p])
             = {x \in entries(modalEventListeners[last'.p]) : x.id # last'.id}
        /\ Len(modalEventListeners'[last'.p])
             = Len(modalEventListeners[last'.p]) - 1]_vars

\* C5 witness: remove() deleted one entry while another entry created with
\* the same hash, event name and handler stays registered.
C5_Witness ==
  /\ last.op = "remove"
  /\ last.n = 1
  /\ last.hash = scopedKey(Hash(1), <<"a">>)
  /\ \E x \in entries(modalEventListeners[last.p]) :
       x.hash = Hash(1) /\ x.eventName = <<"a">> /\ x.handler = "fn"

\* C6: remove() on an entry that is already gone raises nothing and leaves
\* the registry unchanged.
C6_RemoveIsIdempotent ==
  [][(/\ last'.op = "remove"
      /\ ~\E x \in entries(modalEventListeners[last'.p]) : x.id = last'.id)
     => /\ modalEventListeners' = modalEventListeners
        /\ last'.err = "none"]_vars

\* C6 witness: remove() found its entry gone while entries registered after
\* it are in the registry.
C6_Witness ==
  /\ last.op = "remove"
  /\ last.n = 0
  /\ \E x \in entries(modalEventListeners[last.p]) : x.id > last.id

\* C7: registerListener with an empty event name or a non-callable handler
\* raises InvalidListenerError, returns no disposer and leaves the registry
\* as it was.
C7_InvalidListenerRejected ==
  [][(/\ last'.op = "registerListener"
      /\ ~validListener(last'.eventName, last'.handler))
     => /\ last'.err = "InvalidListenerError"
        /\ last'.id = 0
        /\ nextId' = nextId
        /\ modalEventListeners' = modalEventListeners]_vars

\* C7 witness: a call with a non-callable handler was rejected while the
\* registry held entries.
C7_Witness ==
  /\ last.op = "registerListener"
  /\ last.err = "InvalidListenerError"
  /\ last.handler = "notFn"
  /\ last.eventName # <<>>
  /\ modalEventListeners[last.p] # <<>>

\* C8: while a provider is mounted (one active UI root, any sequence of its
\* opens, closes and back presses since its mount), a non-empty stack means
\* handleBackPress is registered for hardwareBackPress.
C8_BackPressRoutedWhileOpen ==
  \A p \in Roots :
    (phase[p] = "mounted" /\ stack # <<>>) => "handleBackPress" \in backHandlers

\* C8 witness: in a provider's second attachment (after a close to empty) a
\* back press was routed to the store, closed the topmost instance, and a
\* modal is still open.
C8_Witness ==
  /\ last.op = "handleBackPress"
  /\ last.closed # {}
  /\ stack # <<>>
  /\ \E p \in Roots : phase[p] = "mounted" /\ addCalls[p] >= 2

\* C9: openModal with a name the definition lacks, on an initialized store,
\* leaves the stack as it was, ends with UnknownModalError at the caller, and
\* changes no root's displayed state.
C9_UnknownNameRejected ==
  [][(/\ last'.op = "openModal"
      /\ last'.name \notin ModalNames
      /\ initialized)
     => /\ stack' = stack
        /\ last'.err = "UnknownModalError"
        /\ contextValue' = contextValue]_vars

\* C9 witness: an unknown name was rejected while modals were open and a
\* listener was subscribed.
C9_Witness ==
  /\ last.op = "openModal"
  /\ last.name \notin ModalNames
  /\ last.err = "UnknownModalError"
  /\ Len(stack) >= 2
  /\ subscribers # {}

\* C10: the unmount of a provider leaves no handleBackPress registration with
\* the platform and no subscription of that provider in the store, and while
\* the provider stays unmounted no step changes its displayed state.
C10_UnmountReleasesEverything ==
  [][\A p \in Roots :
       /\ (phase[p] = "mounted" /\ phase'[p] = "unmounted")
            => (backHandlers' = {} /\ p \notin subscribers')
       /\ (phase[p] = "unmounted" /\ phase'[p] = "unmounted")
            => (contextValue'[p] = contextValue[p] /\ p \notin subscribers')]_vars

\* C10 witness: a provider that attached the handler twice (two transitions
\* from empty to non-empty) is unmounted, and another provider has since
\* opened a modal that the unmounted one does not display.
C10_Witness ==
  \E p, q \in Roots :
    /\ phase[p] = "unmounted"
    /\ addCalls[p] >= 2
    /\ phase[q] = "mounted"
    /\ last.op = "openModal"
    /\ last.p = q
    /\ last.err = "none"
    /\ contextValue[q].stack # <<>>
    /\ contextValue[p] # contextValue[q]

\* C11: the mount effect of a provider rendered without a stack prop ends
\* with the configuration error, and that step neither initializes nor resets
\* the store nor registers a subscription: the effect has called neither
\* ModalState.init nor ModalState.subscribe.
C11_MissingStackFailsFast ==
  [][\A p \in Roots :
       (phase[p] = "rendered" /\ phase'[p] # "rendered" /\ ~stackProp[p])
         => /\ last'.op = "mount"
            /\ last'.err = "ConfigurationError"
            /\ initialized' = initialized
            /\ stack' = stack
            /\ subscribers' = subscribers
            /\ effectCalls'[p] = <<>>
            /\ ~modalStateSubscription'[p]]_vars

\* C11 witness: a provider without a stack prop failed its mount while the
\* store, initialized by an earlier provider, still held an open instance.
C11_Witness ==
  /\ last.op = "mount"
  /\ last.err = "ConfigurationError"
  /\ ~stackProp[last.p]
  /\ phase[last.p] = "none"
  /\ initialized
  /\ stack # <<>>

\* The operations the provider publishes in its context.
ProviderOps == {"openModal", "closeModal", "closeModals", "closeAllModals", "getParam"}

\* C12: no operation published in the context reaches the store before the
\* store was initialized: no call of openModal, closeModal, closeModals,
\* closeAllModals or getParam ends with the store's not-initialized failure.
C12_NoOperationBeforeInit ==
  last.op \in ProviderOps => last.err # "NotInitialized"

\* The number of ModalState.init calls in a sequence of store calls.
inits(calls) == Cardinality({i \in 1..Len(calls) : calls[i] = "init"})

\* C13: once the store is initialized no provider executes ModalState.init
\* again, and the mount of a provider leaves the store's stack as it was.
C13_InitAtMostOncePerProcess ==
  [][\A p \in Roots :
       /\ initialized => ~(effectCalls'[p] # effectCalls[p] /\ inits(effectCalls'[p]) > 0)
       /\ (phase[p] = "rendered" /\ phase'[p] = "mounted") => stack' = stack]_vars

\* C14: the mount effect of a provider with a stack prop calls init, then
\* subscribe, once each, and leaves the provider subscribed; while the
\* provider stays mounted (re-renders, notifications, operations) its effect
\* makes no further store call and its subscription stays the one it has.
C14_InitOnceThenSubscribe ==
  [][\A p \in Roots :
       /\ (phase[p] = "rendered" /\ phase'[p] = "mounted")
            => /\ effectCalls'[p] = <<"init", "subscribe">>
               /\ initialized'
               /\ p \in subscribers'
       /\ (phase[p] = "mounted" /\ phase'[p] = "mounted")
            => /\ effectCalls'[p] = effectCalls[p]
               /\ p \in subscribers']_vars

\* C14 witness: a mounted provider re-rendered after a notification changed
\* its displayed stack; its effect has called init and subscribe once.
C14_Witness ==
  /\ last.op = "rerender"
  /\ phase[last.p] = "mounted"
  /\ effectCalls[last.p] = <<"init", "subscribe">>
  /\ contextValue[last.p].stack # <<>>

\* C15: after every step of a mounted provider its displayed currentModal and
\* stack are those of the store's latest snapshot, and its other fields (the
\* operations) are the ones it displayed before the step.
C15_SnapshotFolded ==
  [][\A p \in Roots :
       (phase[p] = "mounted" /\ phase'[p] = "mounted")
         => /\ contextValue'[p].currentModal = currentModalOf(stack')
            /\ contextValue'[p].stack = stack'
            /\ contextValue'[p].ops = contextValue[p].ops]_vars

\* C15 witness: a close notified the provider of a snapshot that still holds
\* an instance (at least its third notification: two opens, one close), and
\* the provider displays it with the operations of its first render.
C15_Witness ==
  /\ last.op = "closeModal"
  /\ last.closed # {}
  /\ stack # <<>>
  /\ phase[last.p] = "mounted"
  /\ contextValue[last.p].stack = stack
  /\ contextValue[last.p].ops = "firstRender"

\* C16: a store failure (null snapshot and error) changes no provider's
\* displayed state, is logged once by every subscribed listener, and raises
\* nothing; an open that follows it is folded into the displayed state.
C16_NullSnapshotIgnored ==
  [][/\ (last'.op = "notifyError" /\ warnings' # warnings)
          => /\ contextValue' = contextValue
             /\ warnings' = warnings + Cardinality(subscribers)
             /\ last'.err = "none"
     /\ (last.op = "notifyError" /\ last'.op = "openModal" /\ last'.err = "none")
          => \A p \in subscribers : /\ contextValue'[p].stack = stack'
                                    /\ contextValue'[p].currentModal = last'.hash]_vars

\* C16 witness: a second store failure was logged by a provider that displays
\* an open instance, and the display is still the store's stack.
C16_Witness ==
  /\ last.op = "notifyError"
  /\ last.n = 1
  /\ warnings >= 2
  /\ stack # <<>>
  /\ \E p \in subscribers : contextValue[p].stack = stack

\* The entries of data whose key contains none of the hashes hs, in order.
withoutHashes(data, hs) ==
  SelectSeq(data, LAMBDA x : \A h \in hs : ~includes(x.event, h))

\* The closes and the read the provider publishes.
CloseAndReadOps == {"closeModal", "closeModals", "closeAllModals", "getParam"}

C18_HandlerAttachedOnce ==
  \A p \in Roots : addCalls[p] <= 1

\* C19: an openModal the store rejects for its name leaves the hardware-back
\* registration, the listener registry and every displayed state as they
\* were before the call, and the provider has made no add-listener call.
C19_FailedOpenHasNoSideEffect ==
  [][(last'.op = "openModal" /\ last'.err = "UnknownModalError")
       => /\ backHandlers' = backHandlers
          /\ addCalls' = addCalls
          /\ modalEventListeners' = modalEventListeners
          /\ contextValue' = contextValue]_vars

====
